---- MODULE Spec2Model ----
(***************************************************************************)
(* Model of coach_sommeil_bot.py: the users table, the entitlement         *)
(* functions (is_premium, activate_premium, deactivate_premium), the       *)
(* Stripe webhook and the chat handlers that reach them.                   *)
(*                                                                         *)
(* Time is counted in days.  Every database function opens its own         *)
(* connection and catches its own exceptions: a call either works ("ok")   *)
(* or fails ("fail": get_db_connection returned None, or the query         *)
(* raised), and a failed call returns False or None and writes nothing.    *)
(* The customer lookup of the webhook runs outside any such function:      *)
(* there, no connection ("noconn") and a query that raises ("raise")       *)
(* differ.                                                                 *)
(***************************************************************************)
EXTENDS Integers, FiniteSets, Sequences, TLC

\* ------------------------------------------------------------------ bounds
\* The number of requests (chat updates and webhook calls) handled in a run.
MaxRequests == 4
\* The number of create_or_update_user calls, or of is_premium calls, that run
\* side by side.
MaxCalls == 2
\* The number of updates of the diagnostic handled in a run.
MaxMessages == 6
\* The number of payment events handled beside is_premium calls in a run.
MaxEvents == 2

\* The instants (in days) at which datetime.now() is read: a first day, ten
\* days later, and the day a subscription of one month taken on the tenth day
\* expires (by then one taken on the first day has expired).
Instants == {0, 10, 40}

\* ------------------------------------------------------------- input sets
Users == {1, 2}
NoUser == 0
Customers == {"cus_A", "cus_B"}
NoCustomer == "None"
NullTime == -1
DbOutcomes == {"ok", "fail"}
LookupOutcomes == {"ok", "noconn", "raise"}
EventTypes == {"checkout.session.completed", "invoice.payment_succeeded",
               "customer.subscription.deleted", "other"}
CallbackData == {"activate_premium_demo", "other"}

Username(u) == IF u = 1 THEN "alice" ELSE "bob"
FirstName(u) == IF u = 1 THEN "Alice" ELSE "Bob"

VARIABLES users, now, last, handled, grant, granted, calls,
          stage, user_data, reply, accepted
vars == <<users, now, last, handled, grant, granted, calls,
          stage, user_data, reply, accepted>>

\* ------------------------------------------------------------ the users table
\* One row of the users table (CREATE TABLE users).
UserRow_premium(u, t) ==
    [user_id |-> u, username |-> Username(u), first_name |-> FirstName(u),
     is_premium |-> TRUE, subscription_until |-> NullTime,
     stripe_customer_id |-> NoCustomer, created_at |-> t, last_activity |-> t]

UserRow(u, t) ==
    [user_id |-> u, username |-> Username(u), first_name |-> FirstName(u),
     is_premium |-> FALSE, subscription_until |-> NullTime,
     stripe_customer_id |-> NoCustomer, created_at |-> t, last_activity |-> t]

\* get_user_data: the set holding the row of u, empty when there is no row
\* or when the connection or the query failed (the function returns None).
get_user_data(us, u, o) ==
    IF o = "ok" /\ u \in DOMAIN us THEN {us[u]} ELSE {}

\* create_or_update_user: SELECT, then UPDATE last_activity or INSERT.
create_or_update_user(us, u, t, o) ==
    IF o # "ok" THEN [ret |-> FALSE, users |-> us]
    ELSE IF u \in DOMAIN us
         THEN [ret |-> TRUE, users |-> [us EXCEPT ![u].last_activity = t]]
         ELSE [ret |-> TRUE,
               users |-> [v \in DOMAIN us \cup {u} |->
                             IF v = u THEN UserRow(u, t) ELSE us[v]]]

\* deactivate_premium: UPDATE users SET is_premium = FALSE WHERE user_id = u.
deactivate_premium_clears_until(us, u, o) ==
    IF o # "ok" THEN [ret |-> FALSE, users |-> us]
    ELSE IF u \in DOMAIN us
         THEN [ret |-> TRUE,
               users |-> [us EXCEPT ![u].is_premium = FALSE,
                                    ![u].subscription_until = NullTime]]
         ELSE [ret |-> TRUE, users |-> us]

deactivate_premium_checked(us, u, o) ==
    IF o # "ok" THEN [ret |-> FALSE, users |-> us]
    ELSE IF u \in DOMAIN us /\ us[u].is_premium
         THEN [ret |-> TRUE, users |-> [us EXCEPT ![u].is_premium = FALSE]]
         ELSE [ret |-> FALSE, users |-> us]

deactivate_premium(us, u, o) ==
    IF o # "ok" THEN [ret |-> FALSE, users |-> us]
    ELSE IF u \in DOMAIN us
         THEN [ret |-> TRUE, users |-> [us EXCEPT ![u].is_premium = FALSE]]
         ELSE [ret |-> TRUE, users |-> us]

\* expiry = datetime.now() + timedelta(days=30 * months)
Expiry(t, months) == t + 30 * months

\* activate_premium: UPDATE ... SET is_premium = TRUE, subscription_until = expiry
\* [, stripe_customer_id = c] WHERE user_id = u.  An UPDATE that matches no
\* row changes nothing and the function still returns True.
activate_premium_extends(us, u, months, c, t, o) ==
    IF o # "ok" THEN [ret |-> FALSE, users |-> us]
    ELSE IF u \in DOMAIN us
         THEN LET base == IF us[u].subscription_until > t
                          THEN us[u].subscription_until ELSE t
                  row == [us[u] EXCEPT !.is_premium = TRUE,
                                       !.subscription_until = Expiry(base, months)]
              IN [ret |-> TRUE,
                  users |-> [us EXCEPT ![u] =
                      IF c # NoCustomer
                      THEN [row EXCEPT !.stripe_customer_id = c] ELSE row]]
         ELSE [ret |-> TRUE, users |-> us]

activate_premium_keeps_until(us, u, months, c, t, o) ==
    IF o # "ok" THEN [ret |-> FALSE, users |-> us]
    ELSE IF u \in DOMAIN us
         THEN LET row == [us[u] EXCEPT !.is_premium = TRUE]
              IN [ret |-> TRUE,
                  users |-> [us EXCEPT ![u] =
                      IF c # NoCustomer
                      THEN [row EXCEPT !.stripe_customer_id = c] ELSE row]]
         ELSE [ret |-> TRUE, users |-> us]

activate_premium(us, u, months, c, t, o) ==
    IF o # "ok" THEN [ret |-> FALSE, users |-> us]
    ELSE IF u \in DOMAIN us
         THEN LET row == [us[u] EXCEPT !.is_premium = TRUE,
                                       !.subscription_until = Expiry(t, months)]
              IN [ret |-> TRUE,
                  users |-> [us EXCEPT ![u] =
                      IF c # NoCustomer
                      THEN [row EXCEPT !.stripe_customer_id = c] ELSE row]]
         ELSE [ret |-> TRUE, users |-> us]

\* is_premium: read the row; an expired subscription is deactivated on the
\* spot.  oGet is the outcome of get_user_data, oDeact that of the nested
\* deactivate_premium.  deact tells whether deactivate_premium was called.
is_premium_no_expiry(us, u, t, oGet, oDeact) ==
    LET found == get_user_data(us, u, oGet) IN
    IF found = {} THEN [ret |-> FALSE, users |-> us, deact |-> FALSE]
    ELSE LET user == CHOOSE r \in found : TRUE IN
         IF ~user.is_premium THEN [ret |-> FALSE, users |-> us, deact |-> FALSE]
         ELSE [ret |-> TRUE, users |-> us, deact |-> FALSE]

is_premium(us, u, t, oGet, oDeact) ==
    LET found == get_user_data(us, u, oGet) IN
    IF found = {} THEN [ret |-> FALSE, users |-> us, deact |-> FALSE]
    ELSE LET user == CHOOSE r \in found : TRUE IN
         IF ~user.is_premium THEN [ret |-> FALSE, users |-> us, deact |-> FALSE]
         ELSE IF user.subscription_until # NullTime /\ t > user.subscription_until
              THEN [ret |-> FALSE,
                    users |-> deactivate_premium(us, u, oDeact).users,
                    deact |-> TRUE]
              ELSE [ret |-> TRUE, users |-> us, deact |-> FALSE]

\* ------------------------------------------------------------ observations
\* What the last handler did: the handler (op); the user it acted for (u: the
\* chat user, the client_reference_id, or the row the customer lookup
\* returned); the value is_premium, activate_premium or deactivate_premium
\* returned to it (ret); how its storage calls went (db: "none" when it made
\* none, "ok" when all worked, else the failure); whether is_premium found the
\* subscription expired and called deactivate_premium (expired); the
\* subscription_until an activate_premium call found in the row (prev); the
\* is_premium flag an activate_premium or deactivate_premium call of the
\* webhook or of the demo button found in the row (was); and for the webhook
\* the request (sig, wf, kind, cust) and the HTTP status.
Idle ==
    [op |-> "init", u |-> NoUser, ret |-> FALSE, db |-> "none",
     expired |-> FALSE, prev |-> NullTime, was |-> FALSE,
     sig |-> FALSE, wf |-> FALSE, kind |-> "none", cust |-> NoCustomer,
     status |-> 0]

\* The subscription_until of the row of u, NullTime when there is no row.
Until(us, u) == IF u \in DOMAIN us THEN us[u].subscription_until ELSE NullTime

\* grant[u] is the expiry computed by the last activate_premium call for u
\* that returned True, NullTime when there was none or when a
\* deactivate_premium call of a cancellation came after it.
GrantAfter(g, u, r, t, months) ==
    IF r.ret THEN [g EXCEPT ![u] = Expiry(t, months)] ELSE g

\* The is_premium flag of the row of u, False when there is no row.
Flag(us, u) == u \in DOMAIN us /\ us[u].is_premium

\* granted is the set of users for whom an activate_premium call has ever
\* returned True.
GrantedAfter(s, u, r) == IF r.ret THEN s \cup {u} ELSE s

\* ------------------------------------------- create_or_update_user in steps
\* A create_or_update_user call runs on a connection of its own and issues
\* two statements: the SELECT that tells whether the row exists, then the
\* UPDATE or the INSERT it chose, committed.  calls[i] is the position of call
\* i: not started ("idle"), between its two statements ("selected", with what
\* the SELECT found in exists), or returned ("done", with the value returned
\* in ret); db tells whether its connection and statements worked.
CallIds == 1..MaxCalls
NoCall == [pc |-> "idle", u |-> NoUser, exists |-> FALSE, ret |-> FALSE,
           db |-> "ok"]

\* ------------------------------------------------- the guided diagnostic
\* conv_handler keeps one conversation per user (a private chat: the key of
\* a conversation is the chat and the user); context.user_data is the
\* dictionary of the user, kept in memory by the application.
\*
\* AGE, SIESTES, COUCHER, REVEILS = range(4); ConversationHandler.END is what
\* a handler returns to end the conversation, and stands in stage for a user
\* who has no conversation.
AGE == 0
SIESTES == 1
COUCHER == 2
REVEILS == 3
END == -1

\* A message text is a sequence of characters.
DigitChars == <<"0", "1", "2", "3", "4", "5", "6", "7", "8", "9">>
DigitVal(c) == (CHOOSE i \in 1..10 : DigitChars[i] = c) - 1
IsDigit(c) == \E i \in 1..10 : DigitChars[i] = c

\* int(text): an optional sign, then one digit or more; anything else raises
\* ValueError.
Unsigned(s) == IF Len(s) > 0 /\ s[1] \in {"-", "+"} THEN Tail(s) ELSE s
IsInt(s) ==
    /\ Len(Unsigned(s)) > 0
    /\ \A i \in 1..Len(Unsigned(s)) : IsDigit(Unsigned(s)[i])

RECURSIVE DigitsValue(_)
DigitsValue(s) ==
    IF s = <<>> THEN 0
    ELSE 10 * DigitsValue(SubSeq(s, 1, Len(s) - 1)) + DigitVal(s[Len(s)])

ParseInt(s) ==
    IF Len(s) > 0 /\ s[1] = "-" THEN 0 - DigitsValue(Unsigned(s))
    ELSE DigitsValue(Unsigned(s))

\* The texts users send: two integers, and a bedtime that is no integer.
Texts == {<<"6">>, <<"2">>, <<"1", "9", "h", "3", "0">>}

\* The two commands of the diagnostic.  filters.COMMAND: a text that starts
\* with "/" is a command, never an answer.
CmdDiagnostic == <<"/", "d", "i", "a", "g", "n", "o", "s", "t", "i", "c">>
CmdCancel == <<"/", "c", "a", "n", "c", "e", "l">>
Commands == {CmdDiagnostic, CmdCancel}
IsCommand(s) == Len(s) > 0 /\ s[1] = "/"

\* context.user_data[k] = v
Put(d, k, v) == [x \in DOMAIN d \cup {k} |-> IF x = k THEN v ELSE d[x]]

\* siestes_ideal with limits that exclude the ages 3, 6 and 12.
siestes_ideal_exclusive(age) ==
    IF age < 3 THEN 4 ELSE IF age < 6 THEN 3 ELSE IF age < 12 THEN 2 ELSE 1

\* siestes_ideal = 4 if age <= 3 else 3 if age <= 6 else 2 if age <= 12 else 1
siestes_ideal(age) ==
    IF age <= 3 THEN 4 ELSE IF age <= 6 THEN 3 ELSE IF age <= 12 THEN 2 ELSE 1

\* The text diagnostic_reveils builds, by its parts: the situation, the two
\* verdicts and the premium line.
Result(age, siestes, coucher, reveils, premium) ==
    [age |-> age, siestes |-> siestes, coucher |-> coucher,
     reveils |-> reveils, ideal |-> siestes_ideal(age),
     naps |-> IF siestes > siestes_ideal(age) THEN "too_many"
              ELSE IF siestes < siestes_ideal(age) THEN "too_few"
              ELSE "adapted",
     wakes |-> IF reveils > 3 THEN "frequent"
               ELSE IF reveils > 0 THEN "normal" ELSE "excellent",
     upsell |-> ~premium]

NoResult ==
    [age |-> 0, siestes |-> 0, coucher |-> <<>>, reveils |-> 0, ideal |-> 0,
     naps |-> "none", wakes |-> "none", upsell |-> FALSE]

\* reply is what the bot sent in answer to the last update of the diagnostic:
\* to whom, the text of the update (heard), which message was sent (kind,
\* "none" when nothing was), and for the result of a diagnostic its parts.
NoReply == [to |-> NoUser, heard |-> <<>>, kind |-> "none", result |-> NoResult]
Sent(u, text, kind) == [NoReply EXCEPT !.to = u, !.heard = text, !.kind = kind]

Init ==
    /\ users = [u \in {} |-> UserRow(u, 0)]
    /\ now = 0
    /\ last = Idle
    /\ handled = 0
    /\ grant = [u \in Users |-> NullTime]
    /\ granted = {}
    /\ calls = [i \in CallIds |-> NoCall]
    /\ stage = [u \in Users |-> END]
    /\ user_data = [u \in Users |-> [k \in {} |-> 0]]
    /\ reply = NoReply
    /\ accepted = [u \in Users |-> <<>>]

\* datetime.now() moves on between two handlers.
Tick ==
    /\ \E t \in Instants : t > now /\ now' = t
    /\ last' = [Idle EXCEPT !.op = "tick"]
    /\ UNCHANGED <<users, handled, grant, granted, calls>>
    /\ UNCHANGED <<stage, user_data, reply, accepted>>

\* ------------------------------------------------------------ chat handlers
\* /start: create_or_update_user(user.id, user.username, user.first_name).
start(u, o) ==
    LET r == create_or_update_user(users, u, now, o) IN
    /\ users' = r.users
    /\ last' = [Idle EXCEPT !.op = "start", !.u = u, !.ret = r.ret, !.db = o]
    /\ UNCHANGED <<now, grant, granted>>

\* The observation an is_premium call leaves.
Evaluated(op, u, r, oGet, oDeact) ==
    [Idle EXCEPT !.op = op, !.u = u, !.ret = r.ret, !.expired = r.deact,
                 !.db = IF oGet = "ok" /\ r.deact THEN oDeact ELSE oGet]

\* /premium: is_premium(user_id) chooses between the subscriber text and the
\* checkout link with the demo button; neither branch writes to the table.
premium_command(u, oGet, oDeact) ==
    LET r == is_premium(users, u, now, oGet, oDeact) IN
    /\ oDeact = "ok" \/ r.deact
    /\ users' = r.users
    /\ last' = Evaluated("premium_command", u, r, oGet, oDeact)
    /\ UNCHANGED <<now, grant, granted>>

\* The demo button: activate_premium(query.from_user.id, months=1).
premium_callback(u, data, o) ==
    IF data = "activate_premium_demo"
    THEN LET r == activate_premium(users, u, 1, NoCustomer, now, o) IN
         /\ users' = r.users
         /\ grant' = GrantAfter(grant, u, r, now, 1)
         /\ granted' = GrantedAfter(granted, u, r)
         /\ last' = [Idle EXCEPT !.op = "premium_callback", !.u = u,
                                 !.ret = r.ret, !.db = o,
                                 !.prev = Until(users, u),
                                 !.was = Flag(users, u)]
         /\ UNCHANGED now
    ELSE /\ o = "ok"
         /\ last' = [Idle EXCEPT !.op = "premium_callback_other", !.u = u]
         /\ UNCHANGED <<users, now, grant, granted>>

\* /status: get_user_data first (no row: "Tape /start"), then is_premium.
status_command(u, oRead, oGet, oDeact) ==
    IF get_user_data(users, u, oRead) = {}
    THEN /\ oGet = "ok" /\ oDeact = "ok"
         /\ last' = [Idle EXCEPT !.op = "status_unknown", !.u = u, !.db = oRead]
         /\ UNCHANGED <<users, now, grant, granted>>
    ELSE LET r == is_premium(users, u, now, oGet, oDeact) IN
         /\ oDeact = "ok" \/ r.deact
         /\ users' = r.users
         /\ last' = Evaluated("status_command", u, r, oGet, oDeact)
         /\ UNCHANGED <<now, grant, granted>>

\* ------------------------------------------------------------ Stripe webhook
\* stripe.Webhook.construct_event: SignatureVerificationError when the
\* signature does not verify.
SignatureVerified_always(sig) == TRUE

SignatureVerified(sig) == sig

\* SELECT user_id FROM users WHERE stripe_customer_id = c; fetchone() gives
\* one of the matching rows, or nothing (NoUser).  NULL matches no row.
FindByCustomer_active(us, c) ==
    LET rows == {u \in DOMAIN us : /\ c # NoCustomer
                                    /\ us[u].stripe_customer_id = c
                                    /\ us[u].is_premium}
    IN IF rows = {} THEN {NoUser} ELSE rows

FindByCustomer_null_matches(us, c) ==
    LET rows == {u \in DOMAIN us : us[u].stripe_customer_id = c}
    IN IF rows = {} THEN {NoUser} ELSE rows

FindByCustomer(us, c) ==
    LET rows == {u \in DOMAIN us : c # NoCustomer /\ us[u].stripe_customer_id = c}
    IN IF rows = {} THEN {NoUser} ELSE rows

\* The answer of the webhook to an admitted event, as the observation it leaves.
Answer(sig, kind, u, c, db, status) ==
    [Idle EXCEPT !.op = "stripe_webhook", !.sig = sig, !.wf = TRUE,
                 !.kind = kind, !.u = u, !.cust = c, !.db = db,
                 !.status = status]

\* checkout.session.completed: activate the client_reference_id, if any.
CheckoutCompleted_unguarded(sig, ref, c, oUpdate) ==
    IF ref = NoUser
    THEN /\ oUpdate = "ok"
         /\ last' = Answer(sig, "checkout.session.completed", ref, c, "none", 400)
         /\ UNCHANGED <<users, grant, granted>>
    ELSE LET r == activate_premium(users, ref, 1, c, now, oUpdate) IN
         /\ users' = r.users
         /\ grant' = GrantAfter(grant, ref, r, now, 1)
         /\ granted' = GrantedAfter(granted, ref, r)
         /\ last' = [Answer(sig, "checkout.session.completed", ref, c, oUpdate, 200)
                        EXCEPT !.ret = r.ret, !.prev = Until(users, ref),
                               !.was = Flag(users, ref)]

CheckoutCompleted(sig, ref, c, oUpdate) ==
    IF ref = NoUser
    THEN /\ oUpdate = "ok"
         /\ last' = Answer(sig, "checkout.session.completed", ref, c, "none", 200)
         /\ UNCHANGED <<users, grant, granted>>
    ELSE LET r == activate_premium(users, ref, 1, c, now, oUpdate) IN
         /\ users' = r.users
         /\ grant' = GrantAfter(grant, ref, r, now, 1)
         /\ granted' = GrantedAfter(granted, ref, r)
         /\ last' = [Answer(sig, "checkout.session.completed", ref, c, oUpdate, 200)
                        EXCEPT !.ret = r.ret, !.prev = Until(users, ref),
                               !.was = Flag(users, ref)]

\* The lookup of the two customer events, on the webhook's own connection: no
\* connection skips the event (200), a query that raises reaches the outer
\* except (400).
LookupFailed(sig, kind, c, oLookup, oUpdate) ==
    /\ oLookup # "ok"
    /\ oUpdate = "ok"
    /\ last' = Answer(sig, kind, NoUser, c, oLookup,
                      IF oLookup = "raise" THEN 400 ELSE 200)
    /\ UNCHANGED <<users, grant, granted>>

NotFound(sig, kind, c, oUpdate) ==
    /\ oUpdate = "ok"
    /\ last' = Answer(sig, kind, NoUser, c, "ok", 200)
    /\ UNCHANGED <<users, grant, granted>>

\* invoice.payment_succeeded: activate the user found, for one month.
PaymentSucceeded_additive(sig, c, oLookup, oUpdate) ==
    IF oLookup # "ok"
    THEN LookupFailed(sig, "invoice.payment_succeeded", c, oLookup, oUpdate)
    ELSE \E t \in FindByCustomer(users, c) :
         IF t = NoUser
         THEN NotFound(sig, "invoice.payment_succeeded", c, oUpdate)
         ELSE LET r == activate_premium_extends(users, t, 1, NoCustomer, now, oUpdate) IN
              /\ users' = r.users
              /\ grant' = GrantAfter(grant, t, r, now, 1)
              /\ granted' = GrantedAfter(granted, t, r)
              /\ last' = [Answer(sig, "invoice.payment_succeeded", t, c, oUpdate, 200)
                             EXCEPT !.ret = r.ret, !.prev = Until(users, t),
                                    !.was = Flag(users, t)]

PaymentSucceeded(sig, c, oLookup, oUpdate) ==
    IF oLookup # "ok"
    THEN LookupFailed(sig, "invoice.payment_succeeded", c, oLookup, oUpdate)
    ELSE \E t \in FindByCustomer(users, c) :
         IF t = NoUser
         THEN NotFound(sig, "invoice.payment_succeeded", c, oUpdate)
         ELSE LET r == activate_premium(users, t, 1, NoCustomer, now, oUpdate) IN
              /\ users' = r.users
              /\ grant' = GrantAfter(grant, t, r, now, 1)
              /\ granted' = GrantedAfter(granted, t, r)
              /\ last' = [Answer(sig, "invoice.payment_succeeded", t, c, oUpdate, 200)
                             EXCEPT !.ret = r.ret, !.prev = Until(users, t),
                                    !.was = Flag(users, t)]

\* customer.subscription.deleted: deactivate the user found.
SubscriptionDeleted(sig, c, oLookup, oUpdate) ==
    IF oLookup # "ok"
    THEN LookupFailed(sig, "customer.subscription.deleted", c, oLookup, oUpdate)
    ELSE \E t \in FindByCustomer(users, c) :
         IF t = NoUser
         THEN NotFound(sig, "customer.subscription.deleted", c, oUpdate)
         ELSE LET r == deactivate_premium(users, t, oUpdate) IN
              /\ users' = r.users
              /\ grant' = IF r.ret THEN [grant EXCEPT ![t] = NullTime] ELSE grant
              /\ UNCHANGED granted
              /\ last' = [Answer(sig, "customer.subscription.deleted", t, c, oUpdate, 200)
                             EXCEPT !.ret = r.ret, !.was = Flag(users, t)]

\* POST /webhook/stripe.  sig: the signature verifies; wf: the payload parses
\* and has the fields its branch reads (otherwise an exception reaches the
\* outer except); kind: event['type']; ref: client_reference_id; c: customer.
\* A storage call the request does not reach has outcome "ok".
stripe_webhook(sig, wf, kind, ref, c, oLookup, oUpdate) ==
    /\ UNCHANGED now
    /\ kind = "checkout.session.completed" \/ ref = NoUser
    /\ kind \in {"invoice.payment_succeeded", "customer.subscription.deleted"}
          \/ oLookup = "ok"
    /\ IF ~SignatureVerified(sig) \/ ~wf
       THEN /\ oLookup = "ok" /\ oUpdate = "ok"
            /\ last' = [Idle EXCEPT !.op = "stripe_webhook", !.sig = sig,
                                    !.wf = wf, !.status = 400]
            /\ UNCHANGED <<users, grant, granted>>
       ELSE CASE kind = "checkout.session.completed" ->
                     CheckoutCompleted(sig, ref, c, oUpdate)
              [] kind = "invoice.payment_succeeded" ->
                     PaymentSucceeded(sig, c, oLookup, oUpdate)
              [] kind = "customer.subscription.deleted" ->
                     SubscriptionDeleted(sig, c, oLookup, oUpdate)
              [] OTHER ->
                     /\ oUpdate = "ok"
                     /\ last' = Answer(sig, kind, NoUser, NoCustomer, "none", 200)
                     /\ UNCHANGED <<users, grant, granted>>

\* ------------------------------------------------------------ specification
Chat ==
    \E u \in Users :
        \/ \E o \in DbOutcomes : start(u, o)
        \/ \E oGet \in DbOutcomes, oDeact \in DbOutcomes :
               premium_command(u, oGet, oDeact)
        \/ \E data \in CallbackData, o \in DbOutcomes : premium_callback(u, data, o)
        \/ \E oRead \in DbOutcomes, oGet \in DbOutcomes, oDeact \in DbOutcomes :
               status_command(u, oRead, oGet, oDeact)

Webhook ==
    \E sig \in BOOLEAN, wf \in BOOLEAN, kind \in EventTypes,
       ref \in Users \cup {NoUser}, c \in Customers \cup {NoCustomer},
       oLookup \in LookupOutcomes, oUpdate \in DbOutcomes :
        stripe_webhook(sig, wf, kind, ref, c, oLookup, oUpdate)

\* One request is handled at a time (the handlers have no await between
\* their storage calls).
Request ==
    /\ handled < MaxRequests
    /\ handled' = handled + 1
    /\ Chat \/ Webhook
    /\ UNCHANGED <<calls, stage, user_data, reply, accepted>>

Next == Tick \/ Request

Spec == Init /\ [][Next]_vars

TypeOK ==
    /\ DOMAIN users \subseteq Users
    /\ now \in Instants
    /\ handled \in 0..MaxRequests \cup 0..MaxMessages
    /\ \A u \in DOMAIN users :
          /\ users[u].user_id = u
          /\ users[u].is_premium \in BOOLEAN
          /\ users[u].stripe_customer_id \in Customers \cup {NoCustomer}

\* --------------------------------- concurrent create_or_update_user calls
\* conn = get_db_connection(); SELECT user_id FROM users WHERE user_id = u.
upsert_select(i, u, o) ==
    /\ calls[i].pc = "idle"
    /\ calls' = [calls EXCEPT ![i] =
          IF o = "ok"
          THEN [NoCall EXCEPT !.pc = "selected", !.u = u,
                              !.exists = (u \in DOMAIN users)]
          ELSE [NoCall EXCEPT !.pc = "done", !.u = u, !.db = o]]
    /\ UNCHANGED <<users, now, last, handled, grant, granted>>
    /\ UNCHANGED <<stage, user_data, reply, accepted>>

\* if exists: UPDATE last_activity; else: INSERT; commit; return True.  An
\* INSERT for a user_id that has a row by now violates the primary key: the
\* exception is caught and the call returns False.
upsert_write(i, o) ==
    LET c == calls[i] IN
    /\ c.pc = "selected"
    /\ IF o # "ok"
       THEN /\ calls' = [calls EXCEPT ![i] = [c EXCEPT !.pc = "done", !.db = o]]
            /\ UNCHANGED users
       ELSE IF c.exists
       THEN /\ users' = [users EXCEPT ![c.u].last_activity = now]
            /\ calls' = [calls EXCEPT ![i] = [c EXCEPT !.pc = "done", !.ret = TRUE]]
       ELSE IF c.u \in DOMAIN users
       THEN /\ calls' = [calls EXCEPT ![i] = [c EXCEPT !.pc = "done"]]
            /\ UNCHANGED users
       ELSE /\ users' = [v \in DOMAIN users \cup {c.u} |->
                            IF v = c.u THEN UserRow(c.u, now) ELSE users[v]]
            /\ calls' = [calls EXCEPT ![i] = [c EXCEPT !.pc = "done", !.ret = TRUE]]
    /\ UNCHANGED <<now, last, handled, grant, granted>>
    /\ UNCHANGED <<stage, user_data, reply, accepted>>

UpsertSelect == \E i \in CallIds, u \in Users, o \in DbOutcomes : upsert_select(i, u, o)
UpsertWrite == \E i \in CallIds, o \in DbOutcomes : upsert_write(i, o)
NextUpsert == UpsertSelect \/ UpsertWrite \/ Tick

SpecUpsert == Init /\ [][NextUpsert]_vars

\* ---------------------------------------------- the diagnostic handlers
\* What a diagnostic handler leaves: the stage it returned, the reply, and
\* the answers accepted in the conversation so far (accepted).
Returned(u, st, r, acc) ==
    /\ stage' = [stage EXCEPT ![u] = st]
    /\ reply' = r
    /\ accepted' = [accepted EXCEPT ![u] = acc]

\* /diagnostic with no conversation under way asks the age.
diagnostic_start(u, text) ==
    /\ stage[u] = END
    /\ Returned(u, AGE, Sent(u, text, "ask_age"), <<>>)
    /\ last' = [Idle EXCEPT !.op = "diagnostic_start", !.u = u]
    /\ UNCHANGED <<users, now, grant, granted, calls, user_data>>

diagnostic_age_skips_siestes(u, text) ==
    /\ stage[u] = AGE
    /\ IF IsInt(text)
       THEN /\ user_data' = [user_data EXCEPT ![u] =
                                Put(@, "diagnostic_age", ParseInt(text))]
            /\ Returned(u, COUCHER, Sent(u, text, "ask_coucher"),
                        Append(accepted[u], "diagnostic_age"))
       ELSE /\ Returned(u, AGE, Sent(u, text, "number"), accepted[u])
            /\ UNCHANGED user_data
    /\ last' = [Idle EXCEPT !.op = "diagnostic_age", !.u = u]
    /\ UNCHANGED <<users, now, grant, granted, calls>>

diagnostic_age(u, text) ==
    /\ stage[u] = AGE
    /\ IF IsInt(text)
       THEN /\ user_data' = [user_data EXCEPT ![u] =
                                Put(@, "diagnostic_age", ParseInt(text))]
            /\ Returned(u, SIESTES, Sent(u, text, "ask_siestes"),
                        Append(accepted[u], "diagnostic_age"))
       ELSE /\ Returned(u, AGE, Sent(u, text, "number"), accepted[u])
            /\ UNCHANGED user_data
    /\ last' = [Idle EXCEPT !.op = "diagnostic_age", !.u = u]
    /\ UNCHANGED <<users, now, grant, granted, calls>>

diagnostic_siestes_stores_text(u, text) ==
    /\ stage[u] = SIESTES
    /\ IF IsInt(text)
       THEN /\ user_data' = [user_data EXCEPT ![u] =
                                Put(@, "diagnostic_siestes", ParseInt(text))]
            /\ Returned(u, COUCHER, Sent(u, text, "ask_coucher"),
                        Append(accepted[u], "diagnostic_siestes"))
       ELSE /\ user_data' = [user_data EXCEPT ![u] =
                                Put(@, "diagnostic_coucher", text)]
            /\ Returned(u, SIESTES, Sent(u, text, "number"), accepted[u])
    /\ last' = [Idle EXCEPT !.op = "diagnostic_siestes", !.u = u]
    /\ UNCHANGED <<users, now, grant, granted, calls>>

diagnostic_siestes(u, text) ==
    /\ stage[u] = SIESTES
    /\ IF IsInt(text)
       THEN /\ user_data' = [user_data EXCEPT ![u] =
                                Put(@, "diagnostic_siestes", ParseInt(text))]
            /\ Returned(u, COUCHER, Sent(u, text, "ask_coucher"),
                        Append(accepted[u], "diagnostic_siestes"))
       ELSE /\ Returned(u, SIESTES, Sent(u, text, "number"), accepted[u])
            /\ UNCHANGED user_data
    /\ last' = [Idle EXCEPT !.op = "diagnostic_siestes", !.u = u]
    /\ UNCHANGED <<users, now, grant, granted, calls>>

\* Any text is a bedtime.
diagnostic_coucher(u, text) ==
    /\ stage[u] = COUCHER
    /\ user_data' = [user_data EXCEPT ![u] = Put(@, "diagnostic_coucher", text)]
    /\ Returned(u, REVEILS, Sent(u, text, "ask_reveils"),
                Append(accepted[u], "diagnostic_coucher"))
    /\ last' = [Idle EXCEPT !.op = "diagnostic_coucher", !.u = u]
    /\ UNCHANGED <<users, now, grant, granted, calls>>

\* int(text) comes first: a text that is no integer reads nothing and calls
\* nothing.  Otherwise the three answers are read from user_data, and
\* is_premium(user_id), which may deactivate an expired subscription, chooses
\* whether the premium line is added.
diagnostic_reveils(u, text, oGet, oDeact) ==
    /\ stage[u] = REVEILS
    /\ IF IsInt(text)
       THEN LET r == is_premium(users, u, now, oGet, oDeact)
                d == user_data[u]
            IN  /\ oDeact = "ok" \/ r.deact
                /\ users' = r.users
                /\ last' = Evaluated("diagnostic_reveils", u, r, oGet, oDeact)
                /\ Returned(u, END,
                            [Sent(u, text, "result") EXCEPT
                             !.result = Result(d["diagnostic_age"],
                                               d["diagnostic_siestes"],
                                               d["diagnostic_coucher"],
                                               ParseInt(text), r.ret)],
                            accepted[u])
       ELSE /\ oGet = "ok" /\ oDeact = "ok"
            /\ Returned(u, REVEILS, Sent(u, text, "number"), accepted[u])
            /\ last' = [Idle EXCEPT !.op = "diagnostic_reveils_invalid", !.u = u]
            /\ UNCHANGED users
    /\ UNCHANGED <<now, grant, granted, calls, user_data>>

diagnostic_cancel_stays(u, text) ==
    /\ stage[u] # END
    /\ Returned(u, stage[u], Sent(u, text, "cancelled"), accepted[u])
    /\ last' = [Idle EXCEPT !.op = "diagnostic_cancel", !.u = u]
    /\ UNCHANGED <<users, now, grant, granted, calls, user_data>>

\* /cancel during a conversation ends it.
diagnostic_cancel(u, text) ==
    /\ stage[u] # END
    /\ Returned(u, END, Sent(u, text, "cancelled"), accepted[u])
    /\ last' = [Idle EXCEPT !.op = "diagnostic_cancel", !.u = u]
    /\ UNCHANGED <<users, now, grant, granted, calls, user_data>>

\* An update no handler takes: a text or /cancel when the user has no
\* conversation (entry_points holds /diagnostic only), /diagnostic during a
\* conversation (allow_reentry is False).  Nothing is sent.
unhandled(u, text) ==
    /\ last' = [Idle EXCEPT !.op = "unhandled", !.u = u]
    /\ reply' = Sent(u, text, "none")
    /\ UNCHANGED <<users, now, grant, granted, calls, stage, user_data, accepted>>

\* conv_handler: with no conversation the entry point takes /diagnostic;
\* during one the handler of the stage takes a text that is no command and
\* the fallback takes /cancel.
conv_handler(u, text, oGet, oDeact) ==
    IF stage[u] = REVEILS /\ ~IsCommand(text)
    THEN diagnostic_reveils(u, text, oGet, oDeact)
    ELSE /\ oGet = "ok" /\ oDeact = "ok"
         /\ IF stage[u] = END
            THEN IF text = CmdDiagnostic THEN diagnostic_start(u, text)
                 ELSE unhandled(u, text)
            ELSE IF text = CmdCancel THEN diagnostic_cancel(u, text)
            ELSE IF IsCommand(text) THEN unhandled(u, text)
            ELSE IF stage[u] = AGE THEN diagnostic_age(u, text)
            ELSE IF stage[u] = SIESTES THEN diagnostic_siestes(u, text)
            ELSE diagnostic_coucher(u, text)

\* The tables a diagnostic starts from: nobody wrote before, or user 1 took
\* /start and pressed the demo button on the first day.
EmptyTable == [u \in {} |-> UserRow(u, 0)]
DemoTable ==
    activate_premium(create_or_update_user(EmptyTable, 1, 0, "ok").users,
                     1, 1, NoCustomer, 0, "ok").users

InitDiag ==
    /\ users \in {EmptyTable, DemoTable}
    /\ now = 0
    /\ last = Idle
    /\ handled = 0
    /\ grant = [u \in Users |-> Until(users, u)]
    /\ granted = {u \in Users : Flag(users, u)}
    /\ calls = [i \in CallIds |-> NoCall]
    /\ stage = [u \in Users |-> END]
    /\ user_data = [u \in Users |-> [k \in {} |-> 0]]
    /\ reply = NoReply
    /\ accepted = [u \in Users |-> <<>>]

DiagUpdate ==
    \E u \in Users, text \in Commands \cup Texts,
       oGet \in DbOutcomes, oDeact \in DbOutcomes :
        /\ handled < MaxMessages
        /\ handled' = handled + 1
        /\ conv_handler(u, text, oGet, oDeact)

NextDiag == DiagUpdate \/ Tick

SpecDiag == InitDiag /\ [][NextDiag]_vars

\* ------------------------------------------------- the last question
\* The result of a diagnostic over more answers: user 1 took /diagnostic and
\* answered the first three questions, with an age on either side of every
\* limit of siestes_ideal and a number of naps from 0 to 5; the answers to the
\* last question lie on either side of the limits of the wake verdict.
AgeTexts ==
    {<<"-", "1">>, <<"3">>, <<"4">>, <<"6">>, <<"7">>, <<"1", "2">>, <<"1", "3">>}
NapTexts == {<<"0">>, <<"1">>, <<"2">>, <<"3">>, <<"4">>, <<"5">>}
WakeTexts == {<<"-", "1">>, <<"0">>, <<"1">>, <<"3">>, <<"4">>, <<"n", "o", "n">>}
Bedtime == <<"1", "9", "h", "3", "0">>

\* context.user_data after diagnostic_age, diagnostic_siestes and
\* diagnostic_coucher took the three answers.
Answered(age, siestes, coucher) ==
    Put(Put(Put([k \in {} |-> 0], "diagnostic_age", ParseInt(age)),
            "diagnostic_siestes", ParseInt(siestes)),
        "diagnostic_coucher", coucher)

InitVerdict ==
    /\ users \in {EmptyTable, DemoTable}
    /\ now = 0
    /\ last = [Idle EXCEPT !.op = "diagnostic_coucher", !.u = 1]
    /\ handled = 4
    /\ grant = [u \in Users |-> Until(users, u)]
    /\ granted = {u \in Users : Flag(users, u)}
    /\ calls = [i \in CallIds |-> NoCall]
    /\ stage = [u \in Users |-> IF u = 1 THEN REVEILS ELSE END]
    /\ \E age \in AgeTexts, siestes \in NapTexts :
          user_data = [u \in Users |->
                          IF u = 1 THEN Answered(age, siestes, Bedtime)
                          ELSE [k \in {} |-> 0]]
    /\ reply = Sent(1, Bedtime, "ask_reveils")
    /\ accepted = [u \in Users |->
                      IF u = 1
                      THEN <<"diagnostic_age", "diagnostic_siestes",
                             "diagnostic_coucher">>
                      ELSE <<>>]

VerdictUpdate ==
    \E u \in Users, text \in Commands \cup WakeTexts,
       oGet \in DbOutcomes, oDeact \in DbOutcomes :
        /\ handled < MaxMessages
        /\ handled' = handled + 1
        /\ conv_handler(u, text, oGet, oDeact)

NextVerdict == VerdictUpdate \/ Tick

SpecVerdict == InitVerdict /\ [][NextVerdict]_vars

\* ------------------------------------------- is_premium beside the webhook
\* is_premium issues two statements on two connections: the SELECT of
\* get_user_data, then, when the row read is premium and past its
\* subscription_until, the UPDATE of deactivate_premium.  calls[i] is here the
\* position of is_premium call i: not started ("idle"), between the two
\* statements ("expired"), or returned ("done", with the value returned in
\* ret); exists tells whether the SELECT found a row.  A webhook request
\* handled by another worker on the same database can come in between.
is_premium_read(i, u, o) ==
    LET found == get_user_data(users, u, o) IN
    /\ calls[i].pc = "idle"
    /\ calls' = [calls EXCEPT ![i] =
          IF found = {}
          THEN [NoCall EXCEPT !.pc = "done", !.u = u, !.db = o]
          ELSE LET user == CHOOSE r \in found : TRUE IN
               IF ~user.is_premium
               THEN [NoCall EXCEPT !.pc = "done", !.u = u, !.exists = TRUE]
               ELSE IF user.subscription_until # NullTime
                       /\ now > user.subscription_until
               THEN [NoCall EXCEPT !.pc = "expired", !.u = u, !.exists = TRUE]
               ELSE [NoCall EXCEPT !.pc = "done", !.u = u, !.exists = TRUE,
                                   !.ret = TRUE]]
    /\ UNCHANGED <<users, now, last, handled, grant, granted>>
    /\ UNCHANGED <<stage, user_data, reply, accepted>>

\* deactivate_premium(user_id); return False.
is_premium_clear(i, o) ==
    LET c == calls[i] IN
    /\ c.pc = "expired"
    /\ users' = deactivate_premium(users, c.u, o).users
    /\ calls' = [calls EXCEPT ![i] = [c EXCEPT !.pc = "done", !.db = o]]
    /\ UNCHANGED <<now, last, handled, grant, granted>>
    /\ UNCHANGED <<stage, user_data, reply, accepted>>

PremiumRead == \E i \in CallIds, u \in Users, o \in DbOutcomes : is_premium_read(i, u, o)
PremiumClear == \E i \in CallIds, o \in DbOutcomes : is_premium_clear(i, o)

\* The payment events the other worker handles: verified, well-formed, and
\* with the customer lookup working.
PaymentEvent ==
    /\ handled < MaxEvents
    /\ handled' = handled + 1
    /\ \E kind \in EventTypes, ref \in Users \cup {NoUser},
          c \in Customers \cup {NoCustomer}, oUpdate \in DbOutcomes :
           stripe_webhook(TRUE, TRUE, kind, ref, c, "ok", oUpdate)
    /\ UNCHANGED <<calls, stage, user_data, reply, accepted>>

\* The table after user 1 took /start and paid a checkout as customer cus_A
\* on the first day.
SubscribedTable ==
    activate_premium(create_or_update_user(EmptyTable, 1, 0, "ok").users,
                     1, 1, "cus_A", 0, "ok").users

InitExpiry ==
    /\ users = SubscribedTable
    /\ now = 0
    /\ last = Idle
    /\ handled = 0
    /\ grant = [u \in Users |-> Until(users, u)]
    /\ granted = {u \in Users : Flag(users, u)}
    /\ calls = [i \in CallIds |-> NoCall]
    /\ stage = [u \in Users |-> END]
    /\ user_data = [u \in Users |-> [k \in {} |-> 0]]
    /\ reply = NoReply
    /\ accepted = [u \in Users |-> <<>>]

NextExpiry == PremiumRead \/ PremiumClear \/ PaymentEvent \/ Tick

SpecExpiry == InitExpiry /\ [][NextExpiry]_vars

\* ------------------------------------------------------------------ claims
IsPremiumOps == {"premium_command", "status_command"}
Checkout == "checkout.session.completed"
Renewal == "invoice.payment_succeeded"
Cancelled == "customer.subscription.deleted"

\* The last handler was the webhook, admitted a signature-verified event of
\* this kind and acted for a user.
Handled(l, kind) ==
    l.op = "stripe_webhook" /\ l.sig /\ l.kind = kind /\ l.u # NoUser

\* The last handler called activate_premium and it returned True.
Activated(l) ==
    /\ l.ret
    /\ \/ l.op = "premium_callback"
       \/ Handled(l, Checkout)
       \/ Handled(l, Renewal)

\* C1: premium never reads as true past expiry.  In every reachable state,
\* for every user whose subscription_until is present and every later time t,
\* is_premium evaluated at t returns False, and the row's flag is False after
\* that evaluation when its storage calls work; and whenever a handler has
\* just evaluated is_premium for such a user it got False (and the flag is
\* cleared if storage worked).
C1_NeverPremiumPastExpiry ==
    /\ \A u \in DOMAIN users, t \in Instants, oGet \in DbOutcomes, oDeact \in DbOutcomes :
          (users[u].subscription_until # NullTime /\ t > users[u].subscription_until)
          => LET r == is_premium(users, u, t, oGet, oDeact) IN
             /\ ~r.ret
             /\ (oGet = "ok" /\ oDeact = "ok") => ~r.users[u].is_premium
    /\ \A u \in DOMAIN users :
          (/\ last.op \in IsPremiumOps /\ last.u = u
           /\ users[u].subscription_until # NullTime
           /\ now > users[u].subscription_until)
          => /\ ~last.ret
             /\ last.db = "ok" => ~users[u].is_premium

\* C1 witness: a handler evaluated is_premium on an expired subscription whose
\* flag was still set, and cleared it.
C1_Witness ==
    /\ last.op \in IsPremiumOps /\ last.expired /\ last.db = "ok" /\ ~last.ret
    /\ last.u \in DOMAIN users
    /\ now > users[last.u].subscription_until
    /\ ~users[last.u].is_premium

\* C2 (as claimed): once activate_premium has returned True for u, and until a
\* cancellation or another activation, is_premium(u) is True at every time up
\* to the expiry that call computed and False after it.
C2_ActiveUntilExpiry ==
    \A u \in Users :
        grant[u] # NullTime
        => (is_premium(users, u, now, "ok", "ok").ret <=> now <= grant[u])

\* C3 (as claimed): after a verified checkout.session.completed event with
\* client_reference_id u and customer c, handled with storage working,
\* is_premium(u) is True and the lookup by c gives u.
C3_CheckoutGrantsPremium ==
    (Handled(last, Checkout) /\ last.cust # NoCustomer /\ last.db = "ok")
    => /\ is_premium(users, last.u, now, "ok", "ok").ret
       /\ FindByCustomer(users, last.cust) = {last.u}

\* C4: a webhook request whose signature does not verify is answered 400,
\* makes no storage call and leaves the users table as it was.
C4_InvalidSignatureRejected ==
    [][(last'.op = "stripe_webhook" /\ ~last'.sig)
       => (last'.status = 400 /\ last'.db = "none" /\ users' = users)]_vars

\* C4 witness: a request with a bad signature was answered 400 while the table
\* held a subscriber the request could have touched.
C4_Witness ==
    /\ last.op = "stripe_webhook" /\ ~last.sig /\ last.status = 400
    /\ \E u \in DOMAIN users :
          users[u].is_premium /\ users[u].stripe_customer_id # NoCustomer

\* C5 (as claimed): a row's is_premium goes from False to True only in the
\* handling of a verified checkout.session.completed or
\* invoice.payment_succeeded event.
C5_OnlyVerifiedPaymentGrants ==
    [][\A u \in DOMAIN users :
          (u \in DOMAIN users' /\ ~users[u].is_premium /\ users'[u].is_premium)
          => (last'.op = "stripe_webhook" /\ last'.sig
              /\ last'.kind \in {Checkout, Renewal})]_vars

\* C6 (as claimed): the webhook answers 200 exactly when the signature
\* verifies and the payload is well formed, and 400 otherwise.
C6_StatusIsAdmission ==
    last.op = "stripe_webhook"
    => /\ last.status \in {200, 400}
       /\ last.status = 200 <=> (last.sig /\ last.wf)

\* C7 (as claimed): when a storage call fails while a verified event is
\* handled, the users table is unchanged and the webhook answers 200.
C7_StorageFailureAcknowledged ==
    [][(/\ last'.op = "stripe_webhook" /\ last'.sig /\ last'.wf
        /\ last'.db \in {"fail", "noconn", "raise"})
       => (users' = users /\ last'.status = 200)]_vars

\* C8: activate_premium overwrites.  Whatever subscription_until the row held,
\* after an activate_premium call for one month that returned True at time t
\* the row is premium with subscription_until = t + 30 days.
C8_ActivateOverwrites ==
    \A u \in DOMAIN users :
        (Activated(last) /\ last.u = u)
        => /\ users[u].is_premium
           /\ users[u].subscription_until = now + 30

\* C8 witness: a second activation ten days after the first, before the first
\* had expired, left the expiry at (T+10)+30.
C8_Witness ==
    /\ Activated(last) /\ last.u \in DOMAIN users
    /\ last.prev = 30 /\ now = 10
    /\ users[last.u].subscription_until = 40

\* C9 (as claimed): a renewal handled while subscription_until = S is still in
\* the future leaves subscription_until = S + 30 days.
C9_RenewalExtends ==
    \A u \in DOMAIN users :
        (Handled(last, Renewal) /\ last.u = u /\ last.ret /\ last.prev > now)
        => users[u].subscription_until = last.prev + 30

\* C9 (amended): a renewal handled at time t while subscription_until = S is
\* still in the future leaves subscription_until = t + 30 days, whatever S.
C9_RenewalOverwrites ==
    \A u \in DOMAIN users :
        (Handled(last, Renewal) /\ last.u = u /\ last.ret /\ last.prev > now)
        => users[u].subscription_until = Expiry(now, 1)

\* C9 witness: a renewal was applied ten days into a subscription that had
\* twenty days left.
C9_Witness ==
    /\ Handled(last, Renewal) /\ last.ret /\ last.u \in DOMAIN users
    /\ last.prev = 30 /\ now = 10
    /\ users[last.u].subscription_until = 40

\* The last handler called deactivate_premium for u and it returned True.
Deactivated(l, u) ==
    /\ l.u = u
    /\ \/ Handled(l, Cancelled) /\ l.ret
       \/ l.op \in IsPremiumOps /\ l.expired /\ l.db = "ok"

\* C10: cancellation changes the flag only.  A step in which
\* deactivate_premium(u) was applied (by a customer.subscription.deleted event
\* resolving to u, or by is_premium) leaves the table as it was except that
\* u's is_premium is False.
C10_CancelClearsFlagOnly ==
    [][\A u \in DOMAIN users :
          Deactivated(last', u)
          => users' = [users EXCEPT ![u].is_premium = FALSE]]_vars

\* C10 witness: a cancellation event was applied to a subscriber, whose row
\* keeps its expiry and its customer, next to another user's row.
C10_Witness ==
    /\ Handled(last, Cancelled) /\ last.ret /\ last.u \in DOMAIN users
    /\ ~users[last.u].is_premium
    /\ users[last.u].subscription_until # NullTime
    /\ users[last.u].stripe_customer_id = last.cust
    /\ \E v \in DOMAIN users : v # last.u

\* The last handler was the webhook and admitted a signature-verified,
\* well-formed event of this kind.
Admitted(l, kind) == l.op = "stripe_webhook" /\ l.sig /\ l.wf /\ l.kind = kind

\* u is the one row whose stripe_customer_id is c.
OnlyHolder(us, u, c) ==
    /\ c # NoCustomer
    /\ \A v \in DOMAIN us : us[v].stripe_customer_id = c <=> v = u

\* C11: a cancelled user is still reachable by renewal.  Whenever an
\* invoice.payment_succeeded event carrying c has been handled with storage
\* working while u is the row that holds c (whether u's flag was set, cleared
\* by a cancellation or cleared by is_premium), the lookup gave u and
\* is_premium(u) is True.
C11_RenewalReachesCancelledUser ==
    \A u \in DOMAIN users :
        (/\ Admitted(last, Renewal) /\ last.db = "ok"
         /\ OnlyHolder(users, u, last.cust))
        => /\ last.u = u
           /\ is_premium(users, u, now, "ok", "ok").ret

\* C11 witness: a renewal was applied to a user whose flag had been cleared
\* and who is premium again.
C11_Witness ==
    /\ Admitted(last, Renewal) /\ last.db = "ok" /\ last.ret /\ ~last.was
    /\ last.u \in DOMAIN users
    /\ OnlyHolder(users, last.u, last.cust)
    /\ users[last.u].is_premium

\* C12: an invoice.payment_succeeded or customer.subscription.deleted event
\* whose customer is absent or is held by no row leaves the users table as it
\* was.
C12_UnknownCustomerNoChange ==
    [][(/\ Admitted(last', Renewal) \/ Admitted(last', Cancelled)
        /\ \/ last'.cust = NoCustomer
           \/ \A u \in DOMAIN users : users[u].stripe_customer_id # last'.cust)
       => users' = users]_vars

\* C12 witness: a renewal for a customer no row holds was handled while a row
\* without customer existed (the checkout that would store it has not come).
C12_Witness ==
    /\ Admitted(last, Renewal) /\ last.db = "ok" /\ last.cust # NoCustomer
    /\ last.u = NoUser /\ last.status = 200
    /\ \E u \in DOMAIN users : users[u].stripe_customer_id = NoCustomer
    /\ \A u \in DOMAIN users : users[u].stripe_customer_id # last.cust

\* C13: a verified checkout.session.completed event without
\* client_reference_id, and a verified event of any other type, change no row
\* and are answered 200.
C13_IgnorableEventsAcknowledged ==
    [][(\/ Admitted(last', Checkout) /\ last'.u = NoUser
        \/ Admitted(last', "other"))
       => (users' = users /\ last'.status = 200)]_vars

\* C13 witness: a checkout event without client_reference_id was answered 200
\* while the table held rows.
C13_Witness ==
    /\ Admitted(last, Checkout) /\ last.u = NoUser /\ last.cust # NoCustomer
    /\ last.status = 200
    /\ DOMAIN users # {}

\* C14: for a user for whom no activate_premium call ever returned True,
\* is_premium returns False at every time and whatever its storage calls do,
\* and every handler that evaluated is_premium for that user got False.
C14_NeverGrantedNeverPremium ==
    /\ \A u \in Users \ granted, t \in Instants,
          oGet \in DbOutcomes, oDeact \in DbOutcomes :
          ~is_premium(users, u, t, oGet, oDeact).ret
    /\ (last.op \in IsPremiumOps /\ last.u \notin granted) => ~last.ret

\* C14 witness: is_premium was evaluated, with storage working, for a user
\* who has a row and was never granted premium, while another user was.
C14_Witness ==
    /\ last.op \in IsPremiumOps /\ last.db = "ok" /\ ~last.ret
    /\ last.u \in DOMAIN users /\ last.u \notin granted
    /\ granted # {}

\* C15: deactivate_premium is idempotent and unconditional.  From every
\* reachable table and for every user, with storage working, the call returns
\* True, a second call returns True and changes nothing more, and for a user
\* who is not premium or has no row the call changes nothing; a cancellation
\* event handled with storage working got True and left the flag False.
C15_DeactivateIdempotent ==
    /\ \A u \in Users :
          LET once == deactivate_premium(users, u, "ok")
              twice == deactivate_premium(once.users, u, "ok")
          IN /\ once.ret /\ twice.ret
             /\ twice.users = once.users
             /\ ~Flag(once.users, u)
             /\ ~Flag(users, u) => once.users = users
    /\ \A u \in DOMAIN users :
          (Handled(last, Cancelled) /\ last.u = u /\ last.db = "ok")
          => (last.ret /\ ~users[u].is_premium)

\* C15 witness: a cancellation event was applied to a user whose flag was
\* already False, and succeeded.
C15_Witness ==
    /\ Handled(last, Cancelled) /\ last.db = "ok" /\ last.ret /\ ~last.was
    /\ last.u \in DOMAIN users /\ ~users[last.u].is_premium

\* The last handler granted premium to u, or evaluated is_premium(u) and read
\* the row.
Assessed(l, u) ==
    /\ l.u = u
    /\ \/ Activated(l)
       \/ l.op \in IsPremiumOps /\ (l.db = "ok" \/ l.expired)

\* The same, with every storage call of the evaluation working.
AssessedStored(l, u) ==
    /\ l.u = u
    /\ \/ Activated(l)
       \/ l.op \in IsPremiumOps /\ l.db = "ok"

C17_ConcurrentUpsertBothSucceed ==
    \A i \in CallIds, j \in CallIds :
        (/\ i # j
         /\ calls[i].pc = "done" /\ calls[j].pc = "done"
         /\ calls[i].u = calls[j].u
         /\ calls[i].db = "ok" /\ calls[j].db = "ok")
        => /\ calls[i].ret /\ calls[j].ret
           /\ calls[i].u \in DOMAIN users

\* ---------------------------------------------------- diagnostic sessions
\* The answers a conversation has accepted when it reaches the last question.
AllAnswers == <<"diagnostic_age", "diagnostic_siestes", "diagnostic_coucher">>

\* An update of user u was handled in this step.
Heard(u) == handled' # handled /\ reply'.to = u

\* The step an accepted answer (or /diagnostic, for the first) makes.
Forward(u) ==
    \/ stage[u] = END /\ stage'[u] = AGE /\ reply'.kind = "ask_age"
    \/ stage[u] = AGE /\ stage'[u] = SIESTES
    \/ stage[u] = SIESTES /\ stage'[u] = COUCHER
    \/ stage[u] = COUCHER /\ stage'[u] = REVEILS
    \/ stage[u] = REVEILS /\ stage'[u] = END /\ reply'.kind = "result"

\* The step /cancel makes.
CancelStep(u) ==
    /\ stage[u] # END /\ stage'[u] = END
    /\ reply' = Sent(u, CmdCancel, "cancelled")

\* A result is sent only by the step from REVEILS to the end.
ResultOnlyAtEnd ==
    \A u \in Users :
        Heard(u) /\ reply'.kind = "result"
            => stage[u] = REVEILS /\ stage'[u] = END

\* A result sent to u comes after the age, the number of naps and the bedtime
\* were accepted, in that order, in the conversation it ends, and states them.
ResultAfterAnswers ==
    reply.kind = "result" =>
        LET u == reply.to IN
        /\ stage[u] = END
        /\ accepted[u] = AllAnswers
        /\ reply.result.age = user_data[u]["diagnostic_age"]
        /\ reply.result.siestes = user_data[u]["diagnostic_siestes"]
        /\ reply.result.coucher = user_data[u]["diagnostic_coucher"]

\* C18 (as stated): the stage of a user only ever moves AGE -> SIESTES ->
\* COUCHER -> REVEILS -> end, one update per move, never skipping a stage or
\* going back, and a result is sent only on the move from REVEILS to the end,
\* after the three answers were accepted in order in that conversation.
C18_StrictlyLinear ==
    /\ [][\A u \in Users : stage'[u] # stage[u] => Heard(u) /\ Forward(u)]_vars
    /\ [][ResultOnlyAtEnd]_vars
    /\ []ResultAfterAnswers

\* C18 (amended): the same, except that /cancel takes any of the four stages
\* straight to the end, with no result.
C18_LinearUnlessCancelled ==
    /\ [][\A u \in Users : stage'[u] # stage[u]
              => Heard(u) /\ (Forward(u) \/ CancelStep(u))]_vars
    /\ [][ResultOnlyAtEnd]_vars
    /\ []ResultAfterAnswers

\* A conversation went through the four questions and its result was sent.
C18_Witness ==
    /\ reply.kind = "result"
    /\ stage[reply.to] = END
    /\ accepted[reply.to] = AllAnswers
    /\ reply.result.reveils = ParseInt(reply.heard)

\* The stages whose answer must be an integer, and the question of each.
NumericStages == {AGE, SIESTES, REVEILS}
Question(st) ==
    IF st = AGE THEN "ask_age"
    ELSE IF st = SIESTES THEN "ask_siestes"
    ELSE IF st = COUCHER THEN "ask_coucher" ELSE "ask_reveils"

\* User u answered a question that wants an integer with a text that is none.
InvalidAnswer(u) ==
    /\ Heard(u)
    /\ stage[u] \in NumericStages
    /\ ~IsCommand(reply'.heard)
    /\ ~IsInt(reply'.heard)

\* The conversation, the answers and the table are as they were.
Untouched(u) ==
    /\ stage'[u] = stage[u]
    /\ user_data' = user_data
    /\ accepted' = accepted
    /\ users' = users
    /\ reply'.kind # "result"

\* C19 (as stated): a text that is no integer, sent at AGE, SIESTES or
\* REVEILS, leaves the stage and every collected answer as they were, sends no
\* result, and the question of the stage is asked again.
C19_InvalidReplyAsksAgain ==
    [][\A u \in Users : InvalidAnswer(u)
          => Untouched(u) /\ reply'.kind = Question(stage[u])]_vars

\* C19 (amended): a text that is no integer, sent at AGE, SIESTES or REVEILS,
\* leaves the stage and every collected answer as they were and sends no
\* result; the user is asked for a number, the question is not sent again.
C19_InvalidReplyChangesNothing ==
    [][\A u \in Users : InvalidAnswer(u)
          => Untouched(u) /\ reply'.kind = "number"]_vars

\* A text that is no integer was sent at the last question, after three
\* answers were accepted.
C19_Witness ==
    /\ reply.kind = "number"
    /\ stage[reply.to] = REVEILS
    /\ ~IsInt(reply.heard)
    /\ accepted[reply.to] = AllAnswers

\* C20: /cancel at any of the four stages ends the conversation at once and
\* sends no result; and while a user has no conversation, nothing they send
\* but /diagnostic is taken as an answer: no stage is entered, no answer is
\* stored, nothing is sent.
C20_CancelEndsSession ==
    [][\A u \in Users :
          /\ Heard(u) /\ reply'.heard = CmdCancel /\ stage[u] # END
                => /\ stage'[u] = END
                   /\ reply'.kind = "cancelled"
                   /\ user_data' = user_data
          /\ Heard(u) /\ stage[u] = END /\ reply'.heard # CmdDiagnostic
                => /\ stage'[u] = END
                   /\ user_data' = user_data
                   /\ accepted' = accepted
                   /\ reply'.kind = "none"]_vars

\* A conversation was cancelled after one or two answers, and a text the user
\* sent afterwards was not taken.
C20_Witness ==
    /\ reply.kind = "none"
    /\ reply.heard \in Texts
    /\ stage[reply.to] = END
    /\ Len(accepted[reply.to]) \in {1, 2}

\* C21 (as claimed): a user with no conversation under way (it was completed
\* or cancelled, or never started) has no answer of a diagnostic stored:
\* user_data holds none of diagnostic_age, diagnostic_siestes,
\* diagnostic_coucher.
C21_SessionDataDiscarded ==
    \A u \in Users : stage[u] = END => DOMAIN user_data[u] = {}

\* C24 (as claimed): the update that completes a diagnostic and sends its
\* result, premium line decided, leaves the users table as it was.
C24_ResultLeavesStoreUnchanged ==
    [][\A u \in Users : Heard(u) /\ reply'.kind = "result" => users' = users]_vars

\* ------------------------------------------------------ verdict tables
\* The reference table of the ideal number of naps by age in months.
RefIdeal(age) ==
    CASE age <= 3 -> 4
      [] age >= 4 /\ age <= 6 -> 3
      [] age >= 7 /\ age <= 12 -> 2
      [] OTHER -> 1

\* C22: the result of a diagnostic states the age and the number of naps the
\* conversation accepted, and its nap verdict follows the reference table:
\* too many iff naps > ideal, too few iff naps < ideal, adapted iff equal.
C22_NapVerdictTable ==
    reply.kind = "result" =>
        LET r == reply.result
            d == user_data[reply.to]
        IN  /\ r.age = d["diagnostic_age"]
            /\ r.siestes = d["diagnostic_siestes"]
            /\ r.ideal = RefIdeal(r.age)
            /\ r.naps = "too_many" <=> r.siestes > RefIdeal(r.age)
            /\ r.naps = "too_few" <=> r.siestes < RefIdeal(r.age)
            /\ r.naps = "adapted" <=> r.siestes = RefIdeal(r.age)

\* Age 6 with 2 naps: too few, the ideal being 3.
C22_Witness ==
    /\ reply.kind = "result"
    /\ reply.result.age = 6 /\ reply.result.siestes = 2
    /\ reply.result.ideal = 3 /\ reply.result.naps = "too_few"

\* C23 (as claimed): the wake verdict of a result is frequent iff the accepted
\* number of wakes is above 3, normal iff it is 1, 2 or 3, excellent iff it is
\* 0, and no accepted number outside these ranges gets a verdict.
C23_WakeVerdictTable ==
    reply.kind = "result" =>
        LET r == reply.result IN
        /\ r.reveils = ParseInt(reply.heard)
        /\ r.wakes = "frequent" <=> r.reveils > 3
        /\ r.wakes = "normal" <=> r.reveils >= 1 /\ r.reveils <= 3
        /\ r.wakes = "excellent" <=> r.reveils = 0
        /\ r.reveils >= 0

\* C25 (as claimed): whatever the order of the SELECT and the clearing UPDATE
\* of is_premium calls and of the activations of the webhook, once no
\* is_premium call is between its two statements no row has is_premium false
\* together with a subscription_until in the future, unless a cancellation of
\* that user was applied after the last activation.
C25_LazyExpiryKeepsLiveSubscription ==
    (\A i \in CallIds : calls[i].pc # "expired")
        => \A u \in DOMAIN users :
              (~users[u].is_premium /\ users[u].subscription_until > now)
                  => grant[u] = NullTime

====
